---- MODULE Spec2Model ----
(***************************************************************************)
(* Model of seawater/geostrophic.py: the four array functions svan, gpan,  *)
(* bfrq and gvel, the numpy array operations they are written with, and a  *)
(* caller that holds input profiles and calls the functions in any order.  *)
(*                                                                         *)
(* Numbers are IEEE-754 doubles abstracted to exact signed rationals       *)
(* extended with signed zero, signed infinity and NaN: the special values  *)
(* and their propagation are those of numpy's float arithmetic, rounding   *)
(* of finite results is not modelled.                                      *)
(* Arrays are numpy ndarrays: a shape and the elements in row-major order. *)
(***************************************************************************)
EXTENDS Integers, Sequences, FiniteSets, TLC

(***************************************************************************)
(* Floating point values                                                   *)
(***************************************************************************)
RECURSIVE GCD(_, _)
GCD(a, b) ==
    IF b = 0 THEN a ELSE GCD(b, a % b)

Abs(x) ==
    IF x < 0 THEN -x ELSE x

\* a finite value sg * n / d in lowest terms (n = 0 keeps the sign: -0.0)
MkFin(sg, n, d) ==
    LET c == IF n = 0 THEN d ELSE GCD(n, d)
    IN  [k |-> "fin", sg |-> sg, n |-> n \div c, d |-> d \div c]

\* the double nearest to the integer ratio n / d, d > 0
Fin(n, d) ==
    MkFin(IF n < 0 THEN -1 ELSE 1, Abs(n), d)

I(n) ==
    Fin(n, 1)

NaN ==
    [k |-> "nan", sg |-> 1, n |-> 0, d |-> 1]

Inf(sg) ==
    [k |-> "inf", sg |-> sg, n |-> 0, d |-> 1]

IsNaN(a) ==
    a.k = "nan"

IsInf(a) ==
    a.k = "inf"

IsFinite(a) ==
    a.k = "fin"

IsZero(a) ==
    a.k = "fin" /\ a.n = 0

\* unary minus: flips the sign bit, NaN stays NaN
FNeg(a) ==
    IF a.k = "nan" THEN NaN ELSE [a EXCEPT !.sg = -a.sg]

FAdd(a, b) ==
    IF a.k = "nan" \/ b.k = "nan" THEN NaN
    ELSE IF a.k = "inf" /\ b.k = "inf" THEN (IF a.sg = b.sg THEN a ELSE NaN)
    ELSE IF a.k = "inf" THEN a
    ELSE IF b.k = "inf" THEN b
    ELSE LET c  == GCD(a.d, b.d)
             m  == a.sg * a.n * (b.d \div c) + b.sg * b.n * (a.d \div c)
             dd == (a.d \div c) * b.d
         IN  IF m = 0
             THEN MkFin(IF a.sg = -1 /\ b.sg = -1 THEN -1 ELSE 1, 0, 1)
             ELSE Fin(m, dd)

FSub(a, b) ==
    FAdd(a, FNeg(b))

FMul(a, b) ==
    IF a.k = "nan" \/ b.k = "nan" THEN NaN
    ELSE IF a.k = "inf" \/ b.k = "inf"
         THEN (IF IsZero(a) \/ IsZero(b) THEN NaN ELSE Inf(a.sg * b.sg))
    ELSE LET c1 == IF a.n = 0 THEN 1 ELSE GCD(a.n, b.d)
             c2 == IF b.n = 0 THEN 1 ELSE GCD(b.n, a.d)
         IN  MkFin(a.sg * b.sg, (a.n \div c1) * (b.n \div c2),
                   (a.d \div c2) * (b.d \div c1))

\* numpy true division: x/0 is +-inf, 0/0 is nan, nothing is raised
FDiv(a, b) ==
    IF a.k = "nan" \/ b.k = "nan" THEN NaN
    ELSE IF a.k = "inf" THEN (IF b.k = "inf" THEN NaN ELSE Inf(a.sg * b.sg))
    ELSE IF b.k = "inf" THEN MkFin(a.sg * b.sg, 0, 1)
    ELSE IF b.n = 0 THEN (IF a.n = 0 THEN NaN ELSE Inf(a.sg * b.sg))
    ELSE LET c1 == IF a.n = 0 THEN 1 ELSE GCD(a.n, b.n)
             c2 == GCD(a.d, b.d)
         IN  MkFin(a.sg * b.sg, (a.n \div c1) * (b.d \div c2),
                   (a.d \div c2) * (b.n \div c1))

FAbs(a) ==
    IF a.k = "nan" THEN NaN ELSE [a EXCEPT !.sg = 1]

\* ==, < on doubles: NaN compares unequal to everything, -0.0 == 0.0
FEq(a, b) ==
    /\ a.k # "nan"
    /\ b.k # "nan"
    /\ \/ IsZero(a) /\ IsZero(b)
       \/ a = b

FLt(a, b) ==
    /\ a.k # "nan"
    /\ b.k # "nan"
    /\ ~FEq(a, b)
    /\ LET d == FSub(b, a) IN d.k # "nan" /\ d.sg = 1

(***************************************************************************)
(* numpy arrays                                                            *)
(***************************************************************************)
RECURSIVE Prod(_)
Prod(sh) ==
    IF sh = <<>> THEN 1 ELSE Head(sh) * Prod(Tail(sh))

\* np.asanyarray of a nested sequence: shape and elements in C order
Arr(sh, dt) ==
    [shape |-> sh, data |-> dt \o <<>>]

\* a Python scalar operand (2., 1, 35, db2Pascal, np.NaN): a 0-d array
Scalar(x) ==
    Arr(<<>>, <<x>>)

Ndim(a) ==
    Len(a.shape)

\* shape with leading ones up to n dimensions
PadShape(sh, n) ==
    [i \in 1..n |-> IF i <= n - Len(sh) THEN 1 ELSE sh[i - (n - Len(sh))]]

Max(x, y) ==
    IF x >= y THEN x ELSE y

Broadcastable(sa, sb) ==
    LET n == Max(Len(sa), Len(sb))
        A == PadShape(sa, n)
        B == PadShape(sb, n)
    IN  \A i \in 1..n : A[i] = B[i] \/ A[i] = 1 \/ B[i] = 1

\* numpy's broadcast rule: align right, a dimension of 1 stretches
BShape(sa, sb) ==
    LET n == Max(Len(sa), Len(sb))
        A == PadShape(sa, n)
        B == PadShape(sb, n)
    IN  [i \in 1..n |-> IF A[i] = 1 THEN B[i] ELSE A[i]]

\* number of elements one step along each axis spans
Strides(sh) ==
    [i \in 1..Len(sh) |-> Prod(SubSeq(sh, i + 1, Len(sh)))] \o <<>>

RECURSIVE BOff(_, _, _, _, _, _)
\* 0-based flat position, in an array of shape A and strides SA, of the element
\* that the 0-based flat position k of the broadcast shape sh (strides SS) sees
BOff(A, SA, sh, SS, k, i) ==
    IF i > Len(sh) THEN 0
    ELSE (IF A[i] = 1 THEN 0 ELSE ((k \div SS[i]) % sh[i]) * SA[i])
         + BOff(A, SA, sh, SS, k, i + 1)

BGather(dt, A, SA, sh, SS) ==
    [k \in 1..Prod(sh) |-> dt[BOff(A, SA, sh, SS, k - 1, 1) + 1]]

\* np.broadcast_arrays for one operand: the operand seen with shape sh
BroadcastTo(a, sh) ==
    IF a.shape = sh THEN a
    ELSE IF Len(a.data) = 1 THEN Arr(sh, [k \in 1..Prod(sh) |-> a.data[1]])
    ELSE Arr(sh, BGather(a.data, PadShape(a.shape, Len(sh)),
                         Strides(PadShape(a.shape, Len(sh))), sh, Strides(sh)))

\* the elements of an operand as a ufunc with result shape sh reads them
BData(a, sh) ==
    BroadcastTo(a, sh).data

AddData(x, y) ==
    [k \in 1..Len(x) |-> FAdd(x[k], y[k])]

SubData(x, y) ==
    [k \in 1..Len(x) |-> FSub(x[k], y[k])]

MulData(x, y) ==
    [k \in 1..Len(x) |-> FMul(x[k], y[k])]

DivData(x, y) ==
    [k \in 1..Len(x) |-> FDiv(x[k], y[k])]

\* a + b, a - b, a * b, a / b on arrays: elementwise with broadcasting
AAdd(a, b) ==
    Arr(BShape(a.shape, b.shape),
        AddData(BData(a, BShape(a.shape, b.shape)), BData(b, BShape(a.shape, b.shape))))

ASub(a, b) ==
    Arr(BShape(a.shape, b.shape),
        SubData(BData(a, BShape(a.shape, b.shape)), BData(b, BShape(a.shape, b.shape))))

AMul(a, b) ==
    Arr(BShape(a.shape, b.shape),
        MulData(BData(a, BShape(a.shape, b.shape)), BData(b, BShape(a.shape, b.shape))))

ADiv(a, b) ==
    Arr(BShape(a.shape, b.shape),
        DivData(BData(a, BShape(a.shape, b.shape)), BData(b, BShape(a.shape, b.shape))))

ANeg(a) ==
    Arr(a.shape, [k \in 1..Len(a.data) |-> FNeg(a.data[k])])

AAbs(a) ==
    Arr(a.shape, [k \in 1..Len(a.data) |-> FAbs(a.data[k])])

\* elements per index of the first axis
RowSize(a) ==
    Prod(Tail(a.shape))

\* a[0:-1, ...]
AllButLast(a) ==
    LET L == Head(a.shape)
        m == IF L = 0 THEN 0 ELSE L - 1
    IN  Arr(<<m>> \o Tail(a.shape), SubSeq(a.data, 1, m * RowSize(a)))

\* a[1:, ...]
AllButFirst(a) ==
    LET L == Head(a.shape)
        m == IF L = 0 THEN 0 ELSE L - 1
    IN  Arr(<<m>> \o Tail(a.shape), SubSeq(a.data, RowSize(a) + 1, L * RowSize(a)))

\* a[0, ...]
FirstRow(a) ==
    Arr(Tail(a.shape), SubSeq(a.data, 1, RowSize(a)))

\* a[None, ...]
NewAxis0(a) ==
    Arr(<<1>> \o a.shape, a.data)

\* np.diff(a, axis=0)
Diff0(a) ==
    ASub(AllButFirst(a), AllButLast(a))

\* np.diff(a, axis=1) of an array of two dimensions
Diff1(a) ==
    LET L == a.shape[1]
        S == a.shape[2]
        m == IF S = 0 THEN 0 ELSE S - 1
    IN  Arr(<<L, m>>,
            [k \in 1..(L * m) |->
                LET i == (k - 1) \div m
                    j == (k - 1) % m
                IN  FSub(a.data[i * S + j + 2], a.data[i * S + j + 1])])

\* np.concatenate((a, b), axis=0)
Concat0(a, b) ==
    Arr(<<Head(a.shape) + Head(b.shape)>> \o Tail(a.shape), a.data \o b.data)

\* faulty cumsum: the rows are returned as they are, nothing is carried
CumSum0_NoCarry(a) ==
    a

RECURSIVE CumAcc(_, _, _)
CumAcc(dt, rs, k) ==
    IF k <= rs THEN dt[k] ELSE FAdd(CumAcc(dt, rs, k - rs), dt[k])

\* np.cumsum(a, axis=0): each row is the previous row of the result plus the row
CumSum0(a) ==
    Arr(a.shape, [k \in 1..Len(a.data) |-> CumAcc(a.data, RowSize(a), k)])

\* ndarray.squeeze(): every axis of length one is removed
Squeeze(a) ==
    Arr(SelectSeq(a.shape, LAMBDA n : n # 1), a.data)

\* np.ones(shape) * x
Full(sh, x) ==
    Arr(sh, [k \in 1..Prod(sh) |-> x])

(***************************************************************************)
(* Collaborators imported from the other modules of the package            *)
(* (constants, library, eos80, extras).  Their bodies are not part of      *)
(* geostrophic.py; they are stand-ins that keep what the package states    *)
(* about them: elementwise with broadcasting, density rising with salinity *)
(* and pressure and falling with temperature, gravity positive, Coriolis   *)
(* parameter odd in latitude and zero on the equator, distance zero        *)
(* exactly for coincident stations.                                        *)
(***************************************************************************)
\* constants.db2Pascal: decibar to Pascal
db2Pascal ==
    10000

\* constants.gdef: default acceleration of gravity, 9.8
gdef ==
    Fin(49, 5)

\* library.atleast_2d: at least two dimensions, the added one last
atleast_2d(a) ==
    IF Ndim(a) = 0 THEN Arr(<<1, 1>>, a.data)
    ELSE IF Ndim(a) = 1 THEN Arr(<<a.shape[1], 1>>, a.data)
    ELSE a

\* eos80.dens: density of sea water, a linear equation of state
dens(s, t, p) ==
    AAdd(ASub(AAdd(Scalar(I(10)), ASub(s, Scalar(I(35)))), t), p)

\* eos80.pden: density of the parcel (s, t, p) moved to the pressure pr
pden(s, t, p, pr) ==
    dens(s, t, pr)

\* eos80.g: gravity at latitude lat and height z (z < 0 below the surface)
g(lat, z) ==
    ASub(AAdd(Scalar(gdef), ADiv(AAbs(lat), Scalar(I(100)))), ADiv(z, Scalar(I(100))))

\* eos80.dpth: depth in metres from pressure and latitude
dpth(p, lat) ==
    ADiv(AMul(p, Scalar(gdef)), g(lat, Scalar(I(0))))

\* extras.f: Coriolis parameter at latitude lat
f(lat) ==
    ADiv(lat, Scalar(I(100)))

\* extras.dist(lat, lon, units='km')[0]: distance between successive stations
dist(lat, lon) ==
    AAdd(AAbs(Diff0(lat)), AAbs(Diff0(lon)))

(***************************************************************************)
(* geostrophic.py                                                          *)
(***************************************************************************)
\* the factor 1e3 of gvel: kilometres to metres
KmToM ==
    1000

\* lat=None, and a latitude argument
NoLat ==
    [given |-> FALSE, arr |-> Arr(<<0>>, <<>>)]

SomeLat(a) ==
    [given |-> TRUE, arr |-> a]

\* s, t, p = np.broadcast_arrays(s, t, p); s, t, p = map(atleast_2d, (s, t, p))
Prepare(s0, t0, p0) ==
    [s |-> atleast_2d(BroadcastTo(s0, BShape(BShape(s0.shape, t0.shape), p0.shape))),
     t |-> atleast_2d(BroadcastTo(t0, BShape(BShape(s0.shape, t0.shape), p0.shape))),
     p |-> atleast_2d(BroadcastTo(p0, BShape(BShape(s0.shape, t0.shape), p0.shape)))]

\* faulty svan: the reference density taken at the surface, not at p
svan_RefAtSurface(s, t, p) ==
    ASub(ADiv(Scalar(I(1)), dens(s, t, p)),
         ADiv(Scalar(I(1)), dens(Scalar(I(35)), Scalar(I(0)), AMul(p, Scalar(I(0))))))

\* def svan(s, t, p=0)
svan(s, t, p) ==
    ASub(ADiv(Scalar(I(1)), dens(s, t, p)),
         ADiv(Scalar(I(1)), dens(Scalar(I(35)), Scalar(I(0)), p)))

\* gpan from line 226 on, and its local variables at the return statement
gpan_at226(P, svn, top) ==
    [s |-> P.s, t |-> P.t, p |-> P.p, svn |-> svn, top |-> top,
     cum |-> CumSum0(Concat0(
                NewAxis0(top),
                AMul(AMul(ADiv(AAdd(AllButFirst(svn), AllButLast(svn)), Scalar(I(2))),
                          Diff0(P.p)),
                     Scalar(I(db2Pascal)))))]

\* faulty gpan: the surface term without its pressure factor
gpan_at223_NoPressure(P, svn) ==
    gpan_at226(P, svn, AMul(FirstRow(svn), Scalar(I(db2Pascal))))

\* gpan from line 223 on: svn = svan(s, t, p), top = svn[0] * p[0] * db2Pascal
gpan_at223(P, svn) ==
    gpan_at226(P, svn, AMul(AMul(FirstRow(svn), FirstRow(P.p)), Scalar(I(db2Pascal))))

gpan_locals(s0, t0, p0) ==
    gpan_at223(Prepare(s0, t0, p0), svan(Prepare(s0, t0, p0).s, Prepare(s0, t0, p0).t,
                                         Prepare(s0, t0, p0).p))

\* def gpan(s, t, p)
gpan(s0, t0, p0) ==
    Squeeze(gpan_locals(s0, t0, p0).cum)

\* faulty bfrq: n2 and q without the minus sign
bfrq_at115_NoMinus(P, cor, p_ave, pden_up, pden_lo, mid_pden, dif_pden, mid_g, dif_z) ==
    [s |-> P.s, t |-> P.t, p |-> P.p, cor |-> cor, p_ave |-> p_ave,
     pden_up |-> pden_up, pden_lo |-> pden_lo,
     mid_pden |-> mid_pden, dif_pden |-> dif_pden, mid_g |-> mid_g, dif_z |-> dif_z,
     n2 |-> ADiv(AMul(mid_g, dif_pden), AMul(dif_z, mid_pden)),
     q  |-> ADiv(AMul(cor, dif_pden), AMul(dif_z, mid_pden))]

\* bfrq lines 115-119: n2, q and the local variables at the return statement
bfrq_at115(P, cor, p_ave, pden_up, pden_lo, mid_pden, dif_pden, mid_g, dif_z) ==
    [s |-> P.s, t |-> P.t, p |-> P.p, cor |-> cor, p_ave |-> p_ave,
     pden_up |-> pden_up, pden_lo |-> pden_lo,
     mid_pden |-> mid_pden, dif_pden |-> dif_pden, mid_g |-> mid_g, dif_z |-> dif_z,
     n2 |-> ADiv(AMul(ANeg(mid_g), dif_pden), AMul(dif_z, mid_pden)),
     q  |-> ADiv(AMul(ANeg(cor), dif_pden), AMul(dif_z, mid_pden))]

\* bfrq lines 108-113: mid_pden, dif_pden, mid_g, dif_z
bfrq_at108(P, z, cor, grav, p_ave, pden_up, pden_lo) ==
    bfrq_at115(P, cor, p_ave, pden_up, pden_lo,
               ADiv(AAdd(pden_up, pden_lo), Scalar(I(2))),
               ASub(pden_up, pden_lo),
               ADiv(AAdd(AllButLast(grav), AllButFirst(grav)), Scalar(I(2))),
               Diff0(z))

\* bfrq lines 105-106: pden_up, pden_lo
bfrq_at105(P, z, cor, grav, p_ave) ==
    bfrq_at108(P, z, cor, grav, p_ave,
               pden(AllButLast(P.s), AllButLast(P.t), AllButLast(P.p), p_ave),
               pden(AllButFirst(P.s), AllButFirst(P.t), AllButFirst(P.p), p_ave))

\* faulty bfrq: p_ave is the pressure of the upper level of each pair
bfrq_at103_UpperPressure(P, z, cor, grav) ==
    bfrq_at105(P, z, cor, grav, AllButLast(P.p))

\* bfrq line 103: p_ave
bfrq_at103(P, z, cor, grav) ==
    bfrq_at105(P, z, cor, grav,
               ADiv(AAdd(AllButLast(P.p), AllButFirst(P.p)), Scalar(I(2))))

\* bfrq line 100 in the branch with a latitude: grav = g(lat, -z), cor = f(lat)
bfrq_at100(P, lat, z) ==
    bfrq_at103(P, z, f(lat), g(lat, ANeg(z)))

\* faulty bfrq: without a latitude the Coriolis parameter is zero, not NaN
bfrq_at95_ZeroCoriolis(P, lat) ==
    IF ~lat.given
    THEN bfrq_at103(P, P.p, Scalar(I(0)), AMul(Full(P.p.shape, I(1)), Scalar(gdef)))
    ELSE bfrq_at100(P, lat.arr, dpth(P.p, lat.arr))

\* bfrq lines 95-101: z, cor, grav without and with a latitude
bfrq_at95(P, lat) ==
    IF ~lat.given
    THEN bfrq_at103(P, P.p, Scalar(NaN), AMul(Full(P.p.shape, I(1)), Scalar(gdef)))
    ELSE bfrq_at100(P, lat.arr, dpth(P.p, lat.arr))

bfrq_locals(s0, t0, p0, lat) ==
    bfrq_at95(Prepare(s0, t0, p0), lat)

bfrq_ret(B) ==
    [n2 |-> B.n2, q |-> B.q, p_ave |-> B.p_ave]

\* def bfrq(s, t, p, lat=None): return n2, q, p_ave
bfrq(s0, t0, p0, lat) ==
    bfrq_ret(bfrq_locals(s0, t0, p0, lat))

\* the outcome of a call: a returned value or a raised exception
Ok(v) ==
    [st |-> "ok", val |-> v]

Raised ==
    [st |-> "raised", val |-> Arr(<<0>>, <<>>)]

NotCalled ==
    [st |-> "none", val |-> Arr(<<0>>, <<>>)]

\* faulty gvel: the Coriolis parameter of the first station of each pair
gvel_lf_FirstStation(lat0, lon0) ==
    AMul(f(AllButLast(lat0)), AMul(dist(lat0, lon0), Scalar(I(KmToM))))

\* lf = f((lat[0:-1] + lat[1:]) / 2) * distm
gvel_lf(lat0, lon0) ==
    AMul(f(ADiv(AAdd(AllButLast(lat0), AllButFirst(lat0)), Scalar(I(2)))),
         AMul(dist(lat0, lon0), Scalar(I(KmToM))))

\* faulty gvel: a zero denominator is raised as an error
gvel_ret_Guarded(d, lf) ==
    IF ~Broadcastable(d.shape, lf.shape) THEN Raised
    ELSE IF \E k \in 1..Len(lf.data) : IsZero(lf.data[k]) THEN Raised
    ELSE Ok(ADiv(ANeg(d), lf))

\* return -np.diff(ga, axis=1) / lf
gvel_ret(d, lf) ==
    IF ~Broadcastable(d.shape, lf.shape) THEN Raised
    ELSE Ok(ADiv(ANeg(d), lf))

\* def gvel(ga, lat, lon); np.diff(ga, axis=1) raises unless ga has two axes
gvel(ga0, lat0, lon0) ==
    IF Ndim(ga0) < 2 THEN Raised
    ELSE gvel_ret(Diff1(ga0), gvel_lf(lat0, lon0))

(***************************************************************************)
(* The caller: input profiles of L levels and S stations, the station      *)
(* coordinates, and the value each function returned when last called.     *)
(***************************************************************************)
VARIABLES s, t, p, lat, lon, svn, ga, bf, vel

vars ==
    <<s, t, p, lat, lon, svn, ga, bf, vel>>

inputs ==
    <<s, t, p, lat, lon>>

MaxLevels ==
    2

MaxStations ==
    2

\* a station: its salinity cast and its position <<latitude, longitude>> in degrees
StationKinds ==
    {"uniform", "fresh_top", "salty_top"}

\* salinity of a station at level i (1 is the shallowest)
SalAt(c, i) ==
    IF c = "uniform" THEN 35
    ELSE IF c = "fresh_top" THEN (IF i = 1 THEN 34 ELSE 35)
    ELSE (IF i = 1 THEN 35 ELSE 34)

PosOf(c) ==
    IF c = "fresh_top" THEN <<30, 1>> ELSE <<10, 0>>

TempSet ==
    {0, 1}

\* pressure grids: downwards from the surface, downwards from below the surface,
\* all levels at one pressure, and deepest level first
PresGrids ==
    {"down", "deep", "flat", "up"}

PresAt(gr, L, i) ==
    IF gr = "down" THEN i - 1
    ELSE IF gr = "deep" THEN i
    ELSE IF gr = "flat" THEN 1
    ELSE L - i

\* salinity as the caller passes it: L x S, or a vector of L levels for one station
SalArr(L, S, c) ==
    Arr(IF S = 1 THEN <<L>> ELSE <<L, S>>,
        [k \in 1..(L * S) |-> I(SalAt(c[((k - 1) % S) + 1], ((k - 1) \div S) + 1))])

\* pressure as the caller passes it: a column L x 1, or a vector of L levels
PresArr(L, S, gr) ==
    Arr(IF S = 1 THEN <<L>> ELSE <<L, 1>>, [k \in 1..L |-> I(PresAt(gr, L, k))])

CoordArr(S, c, x) ==
    Arr(<<S>>, [k \in 1..S |-> I(PosOf(c[k])[x])])

\* number of levels and of stations of the profiles the caller holds
Levels ==
    Prepare(s, t, p).p.shape[1]

Stations ==
    Prepare(s, t, p).p.shape[2]

Init ==
    /\ \E L \in 1..MaxLevels, S \in 1..MaxStations :
         /\ \E c \in [1..S -> StationKinds] :
              /\ s = SalArr(L, S, c)
              /\ lat = CoordArr(S, c, 1)
              /\ lon = CoordArr(S, c, 2)
         /\ \E tv \in TempSet : t = Scalar(I(tv))
         /\ \E gr \in PresGrids : p = PresArr(L, S, gr)
    /\ svn = NotCalled
    /\ ga = NotCalled
    /\ bf = NotCalled
    /\ vel = NotCalled

\* x = sw.svan(s, t, p)
CallSvan ==
    /\ svn' = Ok(svan(s, t, p))
    /\ UNCHANGED <<inputs, ga, bf, vel>>

\* faulty gpan: the pressure is converted to Pascal in the caller's array
CallGpan_InPlace ==
    /\ ga' = Ok(gpan(s, t, p))
    /\ p' = AMul(p, Scalar(I(db2Pascal)))
    /\ UNCHANGED <<s, t, lat, lon, svn, bf, vel>>

\* x = sw.gpan(s, t, p)
CallGpan ==
    /\ ga' = Ok(gpan(s, t, p))
    /\ UNCHANGED <<inputs, svn, bf, vel>>

\* x = sw.bfrq(s, t, p, lat)
CallBfrqLat ==
    /\ bf' = [st |-> "ok", val |-> bfrq(s, t, p, SomeLat(lat)), lat |-> TRUE]
    /\ UNCHANGED <<inputs, svn, ga, vel>>

\* x = sw.bfrq(s, t, p)
CallBfrqNoLat ==
    /\ bf' = [st |-> "ok", val |-> bfrq(s, t, p, NoLat), lat |-> FALSE]
    /\ UNCHANGED <<inputs, svn, ga, vel>>

\* x = sw.gvel(ga, lat, lon) with the ga that gpan returned
CallGvel ==
    /\ ga.st = "ok"
    /\ vel' = gvel(ga.val, lat, lon)
    /\ UNCHANGED <<inputs, svn, ga, bf>>

Next ==
    \/ CallSvan
    \/ CallGpan
    \/ CallBfrqLat
    \/ CallBfrqNoLat
    \/ CallGvel

Spec ==
    Init /\ [][Next]_vars

(***************************************************************************)
(* Properties                                                              *)
(***************************************************************************)
\* element of level i, station j (both from 0) of an array holding St stations
At(a, St, i, j) ==
    a.data[i * St + j + 1]

AllAre(a, x) ==
    \A k \in 1..Len(a.data) : a.data[k] = x

InfOrNaN(x) ==
    IsInf(x) \/ IsNaN(x)

\* the latitude argument of the call that produced bf
LatArg ==
    IF bf.lat THEN SomeLat(lat) ELSE NoLat

\* ---- C1 ----------------------------------------------------------------
\* C1: svan(35, 0, p) is exactly zero in every element, whatever the
\* pressures: when every salinity is 35 and the temperature is 0 the array
\* svan returned has the broadcast shape and holds only zeros.
C1_ZeroAnomalyOf(v, sh) ==
    /\ v.shape = sh
    /\ Len(v.data) = Prod(sh)
    /\ \A k \in 1..Len(v.data) : IsZero(v.data[k])

C1_ZeroAnomaly ==
    (svn.st = "ok" /\ AllAre(s, I(35)) /\ AllAre(t, I(0)))
        => C1_ZeroAnomalyOf(svn.val, BShape(BShape(s.shape, t.shape), p.shape))

C1_Witness ==
    /\ svn.st = "ok"
    /\ AllAre(s, I(35))
    /\ AllAre(t, I(0))
    /\ Len(svn.val.data) >= 4
    /\ \E k \in 1..Len(p.data) : ~IsZero(p.data[k])
    /\ \E k, m \in 1..Len(p.data) : p.data[k] # p.data[m]

\* ---- C2 ----------------------------------------------------------------
\* C2: the first depth level of gpan's result is svan[0, j] * p[0, j] *
\* db2Pascal at every station j, nothing accumulated; it is zero at every
\* station whose first pressure is zero.
C2_SurfaceOf(v, P, sv) ==
    \A j \in 0..(P.p.shape[2] - 1) :
        /\ FEq(At(v, P.p.shape[2], 0, j),
               FMul(FMul(At(sv, P.p.shape[2], 0, j), At(P.p, P.p.shape[2], 0, j)),
                    I(db2Pascal)))
        /\ IsZero(At(P.p, P.p.shape[2], 0, j)) => IsZero(At(v, P.p.shape[2], 0, j))

C2_SurfaceReference ==
    ga.st = "ok" =>
        \A P \in {Prepare(s, t, p)} :
            \A sv \in {svan(P.s, P.t, P.p)} : C2_SurfaceOf(ga.val, P, sv)

C2_Witness ==
    /\ ga.st = "ok"
    /\ Stations >= 2
    /\ Levels >= 2
    /\ ~IsZero(p.data[1])
    /\ \E k \in 1..Stations : ~IsZero(ga.val.data[k])

\* ---- C3 ----------------------------------------------------------------
\* C3: for every level i >= 1 and station j, gpan[i, j] is gpan[i-1, j] plus
\* ((svan[i-1, j] + svan[i, j]) / 2) * (p[i, j] - p[i-1, j]) * db2Pascal, and
\* the difference of the two levels is that increment.
C3_Increment(P, sv, i, j) ==
    FMul(FMul(FDiv(FAdd(At(sv, P.p.shape[2], i - 1, j), At(sv, P.p.shape[2], i, j)),
                   I(2)),
              FSub(At(P.p, P.p.shape[2], i, j), At(P.p, P.p.shape[2], i - 1, j))),
         I(db2Pascal))

C3_TrapezoidOf(v, P, sv) ==
    \A i \in 1..(P.p.shape[1] - 1), j \in 0..(P.p.shape[2] - 1) :
        /\ At(v, P.p.shape[2], i, j)
             = FAdd(At(v, P.p.shape[2], i - 1, j), C3_Increment(P, sv, i, j))
        /\ FEq(FSub(At(v, P.p.shape[2], i, j), At(v, P.p.shape[2], i - 1, j)),
               C3_Increment(P, sv, i, j))

C4_ShapesOf(r, P) ==
    /\ r.n2.shape = <<P.p.shape[1] - 1, P.p.shape[2]>>
    /\ r.q.shape = <<P.p.shape[1] - 1, P.p.shape[2]>>
    /\ r.p_ave.shape = <<P.p.shape[1] - 1, P.p.shape[2]>>
    /\ Len(r.n2.data) = (P.p.shape[1] - 1) * P.p.shape[2]
    /\ Len(r.q.data) = (P.p.shape[1] - 1) * P.p.shape[2]
    /\ Len(r.p_ave.data) = (P.p.shape[1] - 1) * P.p.shape[2]
    /\ \A i \in 0..(P.p.shape[1] - 2), j \in 0..(P.p.shape[2] - 1) :
         At(r.p_ave, P.p.shape[2], i, j)
           = FDiv(FAdd(At(P.p, P.p.shape[2], i, j), At(P.p, P.p.shape[2], i + 1, j)),
                  I(2))

C4_BfrqShapes ==
    (bf.st = "ok" /\ Levels >= 2) =>
        \A P \in {Prepare(s, t, p)} : C4_ShapesOf(bf.val, P)

C4_Witness ==
    /\ bf.st = "ok"
    /\ bf.lat
    /\ Levels >= 2
    /\ Stations >= 2
    /\ bf.val.p_ave.data[1] = Fin(1, 2)

\* ---- C5 ----------------------------------------------------------------
\* C5: at every level gap and station where the depth difference, the mean
\* gravity and both potential densities are positive, n2 is strictly
\* positive if the lower level is strictly denser and strictly negative if
\* it is strictly less dense; bfrq returns in both cases.
C5_SignOf(r, B) ==
    \A k \in 1..Len(B.dif_z.data) :
        ( /\ FLt(I(0), B.dif_z.data[k])
          /\ FLt(I(0), B.mid_g.data[k])
          /\ FLt(I(0), B.pden_up.data[k])
          /\ FLt(I(0), B.pden_lo.data[k]) )
        => /\ FLt(B.pden_up.data[k], B.pden_lo.data[k]) => FLt(I(0), r.n2.data[k])
           /\ FLt(B.pden_lo.data[k], B.pden_up.data[k]) => FLt(r.n2.data[k], I(0))

C5_StabilitySign ==
    bf.st = "ok" =>
        \A B \in {bfrq_locals(s, t, p, LatArg)} :
            /\ Len(bf.val.n2.data) = Len(B.dif_z.data)
            /\ C5_SignOf(bf.val, B)

C5_WitnessOf(r, B) ==
    /\ \E k \in 1..Len(B.dif_z.data) :
         /\ FLt(I(0), B.dif_z.data[k])
         /\ FLt(B.pden_up.data[k], B.pden_lo.data[k])
         /\ FLt(I(0), r.n2.data[k])
    /\ \E k \in 1..Len(B.dif_z.data) :
         /\ FLt(I(0), B.dif_z.data[k])
         /\ FLt(B.pden_lo.data[k], B.pden_up.data[k])
         /\ FLt(r.n2.data[k], I(0))

C5_Witness ==
    /\ bf.st = "ok"
    /\ bf.lat
    /\ \E B \in {bfrq_locals(s, t, p, LatArg)} : C5_WitnessOf(bf.val, B)

\* ---- C6 ----------------------------------------------------------------
\* C6: for a geopotential anomaly of L levels and S >= 2 stations gvel
\* returns L levels and S-1 columns with vel[i, j] = -(ga[i, j+1] - ga[i, j])
\* / (f((lat[j] + lat[j+1]) / 2) * distance in metres of stations j, j+1),
\* the same denominator at every level.
C6_Pair(a, j) ==
    Arr(<<2>>, <<a.data[j + 1], a.data[j + 2]>>)

C6_Denominator(j) ==
    FMul(f(Scalar(FDiv(FAdd(lat.data[j + 1], lat.data[j + 2]), I(2)))).data[1],
         FMul(dist(C6_Pair(lat, j), C6_Pair(lon, j)).data[1], I(KmToM)))

C6_VelocityOf(v, a, den) ==
    /\ v.shape = <<a.shape[1], a.shape[2] - 1>>
    /\ Len(v.data) = a.shape[1] * (a.shape[2] - 1)
    /\ \A i \in 0..(a.shape[1] - 1), j \in 0..(a.shape[2] - 2) :
         At(v, a.shape[2] - 1, i, j)
           = FDiv(FNeg(FSub(At(a, a.shape[2], i, j + 1), At(a, a.shape[2], i, j))),
                  den[j + 1])

C7_NoLatOf(r, B, withLat) ==
    /\ r.q.shape = B.dif_pden.shape
    /\ Len(r.q.data) = Len(B.dif_pden.data)
    /\ \A k \in 1..Len(r.q.data) : IsNaN(r.q.data[k])
    /\ \A i \in 0..(B.p.shape[1] - 2), j \in 0..(B.p.shape[2] - 1) :
         At(r.n2, B.p.shape[2], i, j)
           = FDiv(FMul(FNeg(gdef), At(B.dif_pden, B.p.shape[2], i, j)),
                  FMul(FSub(At(B.p, B.p.shape[2], i + 1, j), At(B.p, B.p.shape[2], i, j)),
                       At(B.mid_pden, B.p.shape[2], i, j)))
    /\ r.p_ave = withLat.p_ave

C7_NoLatitude ==
    (bf.st = "ok" /\ ~bf.lat) =>
        \A B \in {bfrq_locals(s, t, p, NoLat)} :
            \A withLat \in {bfrq(s, t, p, SomeLat(lat))} :
                C7_NoLatOf(bf.val, B, withLat)

C7_Witness ==
    /\ bf.st = "ok"
    /\ ~bf.lat
    /\ Levels >= 2
    /\ Stations >= 2
    /\ IsNaN(bf.val.q.data[1])
    /\ IsFinite(bf.val.n2.data[1])
    /\ ~IsZero(bf.val.n2.data[1])

\* ---- C8 ----------------------------------------------------------------
\* C8: no call changes an input array of the caller, and a function called
\* again on the same inputs returns what it returned before, whatever was
\* called in between.
C8_Step ==
    /\ UNCHANGED inputs
    /\ svn.st = "ok" => svn' = svn
    /\ ga.st = "ok" => ga' = ga
    /\ (bf.st = "ok" /\ bf'.lat = bf.lat) => bf' = bf
    /\ vel.st # "none" => vel' = vel

C9_Coincident(j) ==
    /\ lat.data[j + 1] = lat.data[j + 2]
    /\ lon.data[j + 1] = lon.data[j + 2]

C9_GvelOf(v, a) ==
    /\ v.shape = <<a.shape[1], a.shape[2] - 1>>
    /\ \A i \in 0..(a.shape[1] - 1), j \in 0..(a.shape[2] - 2) :
         /\ C9_Coincident(j) => InfOrNaN(At(v, a.shape[2] - 1, i, j))
         /\ (~C9_Coincident(j) /\ ~IsZero(C6_Denominator(j)))
                => IsFinite(At(v, a.shape[2] - 1, i, j))

C9_BfrqOf(r, B) ==
    /\ r.n2.shape = B.dif_z.shape
    /\ r.q.shape = B.dif_z.shape
    /\ \A k \in 1..Len(B.dif_z.data) :
         /\ IsZero(B.dif_z.data[k]) => (InfOrNaN(r.n2.data[k]) /\ InfOrNaN(r.q.data[k]))
         /\ ~IsZero(B.dif_z.data[k]) => IsFinite(r.n2.data[k])

C9_WitnessOf(r, B) ==
    \E k \in 1..Len(B.dif_z.data) : IsZero(B.dif_z.data[k]) /\ IsInf(r.n2.data[k])

C10_GpanKeepsLevels ==
    (ga.st = "ok" /\ Stations >= 2) =>
        /\ ga.val.shape = <<Levels, Stations>>
        /\ vel.st # "none" =>
               (vel.st = "ok" /\ vel.val.shape = <<Levels, Stations - 1>>)

====
